---- MODULE Spec2Model ----
(***************************************************************************)
(* Model of src/app.py: the accumulation loop of main() that builds the    *)
(* balance map from expense entries, and simplify_debts(), the greedy      *)
(* matching of debtors and creditors.                                       *)
(*                                                                          *)
(* Amounts are fixed-point integers.  One unit is half of 0.01, so 0.01 is *)
(* Cent units and 1.00 is Scale units; a balance may carry a fraction      *)
(* smaller than 0.01.                                                       *)
(***************************************************************************)
EXTENDS Integers, Sequences, FiniteSets, TLC

\* 0.01, the threshold of lines 36, 52 and 54, in units of 0.005.
Cent == 2
\* 1.00 in units.
Scale == 100 * Cent

\* Bounds of the model.
NumPeople == 3
MaxAmt == 5
MaxEntries == 2

Names == <<"A", "B", "C", "D", "E">>
People == {Names[i] : i \in 1..NumPeople}

VARIABLES
  pc,               \* position in main() / simplify_debts()
  idx,              \* number of items of data the for loop has taken (line 133)
  item,             \* the loop variable of line 133; NoItem between two
                    \* iterations, where the record it still names is never read
  balances,         \* the defaultdict of line 130, in insertion order
  processed_items,  \* line 131
  warnings,         \* the st.warning calls of line 175, by record id
  log,              \* history: per entry taken, what the loop did with it
  calls,            \* history: number of invocations of simplify_debts
  sorted_debtors,   \* line 20
  sorted_creditors, \* line 21
  d_idx,            \* line 24
  c_idx,            \* line 25
  transactions,     \* line 16
  iters             \* history: iterations of the while loop of line 27

vars == <<pc, idx, item, balances, processed_items, warnings, log, calls,
          sorted_debtors, sorted_creditors, d_idx, c_idx, transactions, iters>>

mainVars == <<idx, item, processed_items, warnings, log>>

Abs(x) == IF x < 0 THEN -x ELSE x
Min(x, y) == IF x < y THEN x ELSE y

(***************************************************************************)
(* Balance maps: a Python dict keeps insertion order, so a map is the      *)
(* sequence of its (person, amount) items.                                 *)
(***************************************************************************)
Entry(p, a) == [person |-> p, amount |-> a]

HasKey(b, p) == \E i \in DOMAIN b : b[i].person = p

\* balances[p] += x on a defaultdict(float): a missing key is inserted at the end.
AddTo(b, p, x) ==
  IF HasKey(b, p)
  THEN [i \in DOMAIN b |-> IF b[i].person = p
                           THEN Entry(p, b[i].amount + x) ELSE b[i]]
  ELSE Append(b, Entry(p, x))

RECURSIVE SumAmounts(_)
SumAmounts(b) == IF b = <<>> THEN 0 ELSE Head(b).amount + SumAmounts(Tail(b))

ValueOf(b, p) == IF HasKey(b, p)
                 THEN (CHOOSE e \in {b[i] : i \in DOMAIN b} : e.person = p).amount
                 ELSE 0

(***************************************************************************)
(* simplify_debts, lines 7-57                                              *)
(***************************************************************************)
\* line 13: the dict comprehension keeps the order of balances.items()
RECURSIVE creditors(_)
creditors(b) ==
  IF b = <<>> THEN <<>>
  ELSE IF Head(b).amount > 0 THEN <<Head(b)>> \o creditors(Tail(b))
       ELSE creditors(Tail(b))

\* line 14
RECURSIVE debtors(_)
debtors(b) ==
  IF b = <<>> THEN <<>>
  ELSE IF Head(b).amount < 0 THEN <<Head(b)>> \o debtors(Tail(b))
       ELSE debtors(Tail(b))

\* sorted() is stable: items with equal keys keep their input order, also
\* with reverse=True.
RECURSIVE InsertAscending(_, _)
InsertAscending(s, x) ==
  IF s = <<>> THEN <<x>>
  ELSE IF x.amount < Head(s).amount THEN <<x>> \o s
       ELSE <<Head(s)>> \o InsertAscending(Tail(s), x)

RECURSIVE InsertDescending(_, _)
InsertDescending(s, x) ==
  IF s = <<>> THEN <<x>>
  ELSE IF x.amount > Head(s).amount THEN <<x>> \o s
       ELSE <<Head(s)>> \o InsertDescending(Tail(s), x)

RECURSIVE SortAscending(_)
SortAscending(s) ==
  IF s = <<>> THEN <<>>
  ELSE InsertAscending(SortAscending(SubSeq(s, 1, Len(s) - 1)), s[Len(s)])

RECURSIVE SortDescending(_)
SortDescending(s) ==
  IF s = <<>> THEN <<>>
  ELSE InsertDescending(SortDescending(SubSeq(s, 1, Len(s) - 1)), s[Len(s)])

\* line 27
LoopGuard(sd, sc, d, c) == d < Len(sd) /\ c < Len(sc)

\* line 33; the cursors are 0-based as in the source
Payment(sd, sc, d, c) == Min(-(sd[d + 1].amount), sc[c + 1].amount)

\* line 36
BelowThreshold(payment) == payment < Cent

\* line 37 without its increment: the cursor stays
SkipDebtorStuck(d) == d
\* line 37
SkipDebtor(d) == d + 1

\* {payment:,.0f} of line 40: the amount shown, rounded to a whole unit of
\* currency, half to even
Shown(payment) ==
  LET q == payment \div Scale
      r == payment % Scale
  IN  IF 2 * r < Scale THEN q
      ELSE IF 2 * r > Scale THEN q + 1
      ELSE IF q % 2 = 0 THEN q ELSE q + 1

\* line 40: what the formatted string holds (debtor, creditor, amount shown);
\* payment is the full-precision amount of line 33 that the string is made of
Transaction(debtor_name, creditor_name, payment) ==
  [debtor |-> debtor_name, creditor |-> creditor_name,
   shown |-> Shown(payment), payment |-> payment]

\* line 43 with the sign of line 44: the debt grows by the payment
NewDebtorAmountSignSlip(debtor_amount, payment) == debtor_amount - payment
\* line 43
NewDebtorAmount(debtor_amount, payment) == debtor_amount + payment
\* line 44
NewCreditorAmount(creditor_amount, payment) == creditor_amount - payment
\* lines 52-53
NextDebtor(d, new_debtor_amount) ==
  IF new_debtor_amount > -Cent THEN d + 1 ELSE d
\* lines 54-55
NextCreditor(c, new_creditor_amount) ==
  IF new_creditor_amount < Cent THEN c + 1 ELSE c

\* lines 13-25: the state of the function when it reaches the while loop
Partitioned(b) ==
  [sd |-> SortAscending(debtors(b)), sc |-> SortDescending(creditors(b)),
   d |-> 0, c |-> 0, tx |-> <<>>]

\* lines 28-55: one iteration of the while loop
LoopBody(st) ==
  LET debtor == st.sd[st.d + 1]
      creditor == st.sc[st.c + 1]
      payment == Payment(st.sd, st.sc, st.d, st.c)
      nd == NewDebtorAmount(debtor.amount, payment)
      nc == NewCreditorAmount(creditor.amount, payment)
  IN  IF BelowThreshold(payment)
      THEN [st EXCEPT !.d = SkipDebtor(st.d)]
      ELSE [sd |-> [st.sd EXCEPT ![st.d + 1] = Entry(debtor.person, nd)],
            sc |-> [st.sc EXCEPT ![st.c + 1] = Entry(creditor.person, nc)],
            d |-> NextDebtor(st.d, nd),
            c |-> NextCreditor(st.c, nc),
            tx |-> Append(st.tx,
                          Transaction(debtor.person, creditor.person, payment))]

RECURSIVE RunLoop(_)
RunLoop(st) ==
  IF LoopGuard(st.sd, st.sc, st.d, st.c) THEN RunLoop(LoopBody(st)) ELSE st

\* the whole function: the list it returns
simplify_debts(b) == RunLoop(Partitioned(b)).tx

LoopState == [sd |-> sorted_debtors, sc |-> sorted_creditors,
              d |-> d_idx, c |-> c_idx, tx |-> transactions]

SetLoopState(st) ==
  /\ sorted_debtors' = st.sd
  /\ sorted_creditors' = st.sc
  /\ d_idx' = st.d
  /\ c_idx' = st.c
  /\ transactions' = st.tx

\* lines 13-25
Partition ==
  /\ pc = "partition"
  /\ SetLoopState(Partitioned(balances))
  /\ iters' = 0
  /\ pc' = "while"
  /\ UNCHANGED <<balances, calls>>
  /\ UNCHANGED mainVars

\* lines 27-38: the iteration that takes the branch of line 36
LoopSkip ==
  /\ pc = "while"
  /\ LoopGuard(sorted_debtors, sorted_creditors, d_idx, c_idx)
  /\ BelowThreshold(Payment(sorted_debtors, sorted_creditors, d_idx, c_idx))
  /\ SetLoopState(LoopBody(LoopState))
  /\ iters' = iters + 1
  /\ UNCHANGED <<pc, balances, calls>>
  /\ UNCHANGED mainVars

\* lines 27-55: the iteration that emits a payment
LoopPay ==
  /\ pc = "while"
  /\ LoopGuard(sorted_debtors, sorted_creditors, d_idx, c_idx)
  /\ ~BelowThreshold(Payment(sorted_debtors, sorted_creditors, d_idx, c_idx))
  /\ SetLoopState(LoopBody(LoopState))
  /\ iters' = iters + 1
  /\ UNCHANGED <<pc, balances, calls>>
  /\ UNCHANGED mainVars

\* lines 27, 57: the loop condition fails and the function returns
Return ==
  /\ pc = "while"
  /\ ~LoopGuard(sorted_debtors, sorted_creditors, d_idx, c_idx)
  /\ pc' = "returned"
  /\ UNCHANGED <<balances, calls, sorted_debtors, sorted_creditors, d_idx,
                 c_idx, transactions, iters>>
  /\ UNCHANGED mainVars

NoItem == [id |-> "none"]

\* Every balance map of at most NumPeople people with amounts of at most
\* MaxAmt units, in every insertion order, whether or not it sums to zero.
IsBalanceMap(b) ==
  \E n \in 0..NumPeople :
    \E ps \in [1..n -> People], am \in [1..n -> (-MaxAmt)..MaxAmt] :
      /\ \A i, j \in 1..n : ps[i] = ps[j] => i = j
      /\ b = [i \in 1..n |-> Entry(ps[i], am[i])]

InitSimplify ==
  /\ pc = "partition"
  /\ IsBalanceMap(balances)
  /\ idx = 0
  /\ item = NoItem
  /\ processed_items = <<>>
  /\ warnings = <<>>
  /\ log = <<>>
  /\ calls = 1
  /\ sorted_debtors = <<>>
  /\ sorted_creditors = <<>>
  /\ d_idx = 0
  /\ c_idx = 0
  /\ transactions = <<>>
  /\ iters = 0

NextSimplify == Partition \/ LoopSkip \/ LoopPay \/ Return

SpecSimplify == InitSimplify /\ [][NextSimplify]_vars


(***************************************************************************)
(* The records of data, lines 133-143.  A property of a record is absent   *)
(* (no such key in props), or holds a value of its type.                   *)
(***************************************************************************)
AbsentProp == [tag |-> "absent"]
NullNumber == [tag |-> "null"]                       \* {"number": None}
NumberProp(n) == [tag |-> "number", number |-> n]
Option(n) == [name |-> n]
NamelessOption == [color |-> "gray"]                 \* an option with no "name"
OptionsProp(l) == [tag |-> "multi_select", options |-> l]
TitleProp(l) == [tag |-> "title", title |-> l]

Hundred == 100 * Scale
\* 0.015: an amount with a fraction below 0.01
OddAmount == Cent + Cent \div 2
AmountProps == {AbsentProp, NullNumber}
                 \cup {NumberProp(n) : n \in {0, -Hundred, Hundred, OddAmount}}
PayersProps == {AbsentProp} \cup
  {OptionsProp(l) : l \in {<<>>, <<Option("A")>>, <<Option("B"), Option("A")>>,
                           <<NamelessOption>>}}
SharersProps == {AbsentProp} \cup
  {OptionsProp(l) : l \in {<<>>, <<Option("A")>>, <<Option("A"), Option("B")>>,
                           <<Option("A"), Option("B"), Option("C")>>,
                           <<Option("A"), NamelessOption>>}}
TitleProps == {AbsentProp, TitleProp(<<>>), TitleProp(<<[plain_text |-> "lunch"]>>)}

RecordIds == <<"r1", "r2", "r3", "r4", "r5">>

HasName(o) == "name" \in DOMAIN o

\* line 138
MissingProperty(it) ==
  "absent" \in {it.amount.tag, it.payers.tag, it.sharers.tag}

\* line 146
IncompleteData(it) ==
  IF it.amount.tag = "null" THEN TRUE
  ELSE IF it.amount.number = 0 THEN TRUE
  ELSE IF it.payers.options = <<>> THEN TRUE
  ELSE it.sharers.options = <<>>

\* lines 150 and 153: indexing an option by "name" raises KeyError
RaisesBeforeMutation(it) ==
  IF ~HasName(it.payers.options[1]) THEN TRUE
  ELSE \E i \in DOMAIN it.sharers.options : ~HasName(it.sharers.options[i])

\* line 167: .get("title", [{}])[0] raises IndexError on an empty title list
RaisesAtProcessedItem(it) ==
  it.title.tag = "title" /\ it.title.title = <<>>

\* line 150
payer_name(it) == it.payers.options[1].name
\* line 153
sharer_names(it) == [i \in DOMAIN it.sharers.options |-> it.sharers.options[i].name]

\* round(amount / share_count), without the digits argument: the nearest
\* whole unit of currency
RoundWhole(amount, share_count) ==
  LET lo == Scale * (amount \div (share_count * Scale))
  IN  IF 2 * (amount - share_count * lo) < share_count * Scale
      THEN {lo} ELSE {lo + Scale}
\* line 157: round(amount / share_count, 2), the multiples of 0.01 nearest to
\* the quotient.  On an exact tie the float quotient lies on either side of
\* the midpoint (round(0.005, 2) = 0.01, round(0.015, 2) = 0.01), so both
\* neighbours are possible results.
Round2(amount, share_count) ==
  LET lo == Cent * (amount \div (share_count * Cent))
      hi == lo + Cent
      dlo == amount - share_count * lo
      dhi == share_count * hi - amount
  IN  IF dlo < dhi THEN {lo}
      ELSE IF dlo > dhi THEN {hi}
      ELSE {lo, hi}

\* lines 163-164
RECURSIVE DebitSharers(_, _, _)
DebitSharers(b, names, per_person_amount) ==
  IF names = <<>> THEN b
  ELSE DebitSharers(AddTo(b, Head(names), -per_person_amount), Tail(names),
                    per_person_amount)

\* line 160
CreditPayer(b, name, amount) == AddTo(b, name, amount)

\* lines 166-172
ProcessedItem(it, per_person_amount) ==
  [name |-> IF it.title.tag = "absent" THEN "unnamed" ELSE it.title.title[1].plain_text,
   amount |-> it.amount.number,
   payer |-> payer_name(it),
   sharers |-> sharer_names(it),
   per_person |-> per_person_amount]

\* no st.warning call: the list of warnings as it was
NoWarning(ws, it) == ws
\* line 175
Warning(ws, it) == Append(ws, it.id)

\* a test for "nothing to settle" in place of line 177's "no key at all"
NotBalancesAllZero(b) == \A i \in DOMAIN b : b[i].amount = 0
\* line 177
NotBalances(b) == b = <<>>

\* history: whether the record is a valid expense entry (a positive amount,
\* one payer, a non-empty list of beneficiaries, every option named)
ValidEntry(it) ==
  /\ ~MissingProperty(it)
  /\ it.amount.tag = "number" /\ it.amount.number > 0
  /\ Len(it.payers.options) = 1
  /\ it.sharers.options # <<>>
  /\ ~RaisesBeforeMutation(it)

Logged(it, applied, warned) ==
  Append(log, [id |-> it.id, valid |-> ValidEntry(it), applied |-> applied,
               warned |-> warned, shares |-> IF applied THEN Len(it.sharers.options) ELSE 0])

simplifyVars == <<sorted_debtors, sorted_creditors, d_idx, c_idx, transactions, iters>>

\* line 133: the loop takes the next record of data
ForNext ==
  /\ pc = "for"
  /\ idx < MaxEntries
  /\ \E a \in AmountProps, p \in PayersProps, s \in SharersProps, t \in TitleProps :
       item' = [id |-> RecordIds[idx + 1], amount |-> a, payers |-> p,
                sharers |-> s, title |-> t]
  /\ idx' = idx + 1
  /\ pc' = "body"
  /\ UNCHANGED <<balances, processed_items, warnings, log, calls>>
  /\ UNCHANGED simplifyVars

\* line 133: data is exhausted
ForEnd ==
  /\ pc = "for"
  /\ pc' = "check"
  /\ UNCHANGED <<idx, item, balances, processed_items, warnings, log, calls>>
  /\ UNCHANGED simplifyVars

\* lines 135-139
SkipMissing ==
  /\ pc = "body"
  /\ MissingProperty(item)
  /\ log' = Logged(item, FALSE, FALSE)
  /\ pc' = "for"
  /\ item' = NoItem
  /\ UNCHANGED <<idx, balances, processed_items, warnings, calls>>
  /\ UNCHANGED simplifyVars

\* lines 135-147
SkipIncomplete ==
  /\ pc = "body"
  /\ ~MissingProperty(item)
  /\ IncompleteData(item)
  /\ log' = Logged(item, FALSE, FALSE)
  /\ pc' = "for"
  /\ item' = NoItem
  /\ UNCHANGED <<idx, balances, processed_items, warnings, calls>>
  /\ UNCHANGED simplifyVars

\* lines 135-153, 174-175: an exception before the balances are touched
FailBeforeMutation ==
  /\ pc = "body"
  /\ ~MissingProperty(item)
  /\ ~IncompleteData(item)
  /\ RaisesBeforeMutation(item)
  /\ warnings' = Warning(warnings, item)
  /\ log' = Logged(item, FALSE, TRUE)
  /\ pc' = "for"
  /\ item' = NoItem
  /\ UNCHANGED <<idx, balances, processed_items, calls>>
  /\ UNCHANGED simplifyVars

\* lines 135-172: the entry is applied and recorded
ApplyEntry ==
  /\ pc = "body"
  /\ ~MissingProperty(item)
  /\ ~IncompleteData(item)
  /\ ~RaisesBeforeMutation(item)
  /\ ~RaisesAtProcessedItem(item)
  /\ \E per_person_amount \in Round2(item.amount.number, Len(item.sharers.options)) :
       /\ balances' = DebitSharers(CreditPayer(balances, payer_name(item), item.amount.number),
                                   sharer_names(item), per_person_amount)
       /\ processed_items' = Append(processed_items, ProcessedItem(item, per_person_amount))
  /\ warnings' = NoWarning(warnings, item)
  /\ log' = Logged(item, TRUE, FALSE)
  /\ pc' = "for"
  /\ item' = NoItem
  /\ UNCHANGED <<idx, calls>>
  /\ UNCHANGED simplifyVars

\* lines 135-167, 174-175: the balances are updated, then building the
\* processed-items record raises
ApplyThenFail ==
  /\ pc = "body"
  /\ ~MissingProperty(item)
  /\ ~IncompleteData(item)
  /\ ~RaisesBeforeMutation(item)
  /\ RaisesAtProcessedItem(item)
  /\ \E per_person_amount \in Round2(item.amount.number, Len(item.sharers.options)) :
       balances' = DebitSharers(CreditPayer(balances, payer_name(item), item.amount.number),
                                sharer_names(item), per_person_amount)
  /\ warnings' = Warning(warnings, item)
  /\ log' = Logged(item, TRUE, TRUE)
  /\ pc' = "for"
  /\ item' = NoItem
  /\ UNCHANGED <<idx, processed_items, calls>>
  /\ UNCHANGED simplifyVars

\* lines 177-179
EmptyResult ==
  /\ pc = "check"
  /\ NotBalances(balances)
  /\ pc' = "error"
  /\ UNCHANGED <<balances, calls>>
  /\ UNCHANGED mainVars
  /\ UNCHANGED simplifyVars

\* lines 177, 182: simplify_debts is called
CallSimplify ==
  /\ pc = "check"
  /\ ~NotBalances(balances)
  /\ calls' = calls + 1
  /\ pc' = "partition"
  /\ UNCHANGED balances
  /\ UNCHANGED mainVars
  /\ UNCHANGED simplifyVars

\* lines 182-195: the result is shown
Report ==
  /\ pc = "returned"
  /\ pc' = IF transactions = <<>> THEN "settled" ELSE "listed"
  /\ UNCHANGED <<balances, calls>>
  /\ UNCHANGED mainVars
  /\ UNCHANGED simplifyVars

\* line 110: the button is pressed; lines 130-131
Init ==
  /\ pc = "for"
  /\ idx = 0
  /\ item = NoItem
  /\ balances = <<>>
  /\ processed_items = <<>>
  /\ warnings = <<>>
  /\ log = <<>>
  /\ calls = 0
  /\ sorted_debtors = <<>>
  /\ sorted_creditors = <<>>
  /\ d_idx = 0
  /\ c_idx = 0
  /\ transactions = <<>>
  /\ iters = 0

Next ==
  \/ ForNext \/ ForEnd
  \/ SkipMissing \/ SkipIncomplete \/ FailBeforeMutation
  \/ ApplyEntry \/ ApplyThenFail
  \/ EmptyResult \/ CallSimplify
  \/ Partition \/ LoopSkip \/ LoopPay \/ Return
  \/ Report

Spec == Init /\ [][Next]_vars


(***************************************************************************)
(* Properties of simplify_debts, checked under SpecSimplify                *)
(***************************************************************************)
RECURSIVE PaidBy(_, _)
PaidBy(tx, p) ==
  IF tx = <<>> THEN 0
  ELSE (IF Head(tx).debtor = p THEN Head(tx).payment ELSE 0) + PaidBy(Tail(tx), p)

RECURSIVE PaidTo(_, _)
PaidTo(tx, p) ==
  IF tx = <<>> THEN 0
  ELSE (IF Head(tx).creditor = p THEN Head(tx).payment ELSE 0) + PaidTo(Tail(tx), p)

\* the balance of p once every payment of tx is applied to the map b at its
\* full-precision amount: what p paid settles p's debt, what p received
\* settles p's credit
AfterPayments(b, tx, p) == ValueOf(b, p) + PaidBy(tx, p) - PaidTo(tx, p)

NonZero(b) == Cardinality({i \in DOMAIN b : b[i].amount # 0})

Reorderings(b) ==
  {[i \in DOMAIN b |-> b[f[i]]] : f \in Permutations(DOMAIN b)}

\* C1: for a balance map that sums to exactly zero, once simplify_debts has
\* returned, applying every emitted payment to the original map leaves every
\* person with a balance of absolute value strictly below 0.01.
C1_Settlement ==
  (pc = "returned" /\ SumAmounts(balances) = 0)
    => \A p \in People : Abs(AfterPayments(balances, transactions, p)) < Cent

\* C2: simplify_debts returns the same payments in the same order for every
\* insertion order of the same person/amount pairs, ties included.
C2_InsertionOrderDeterminism ==
  pc = "returned"
    => \A b2 \in Reorderings(balances) : simplify_debts(b2) = transactions

\* C5: for a map with n >= 1 non-zero balances, whether or not they sum to
\* zero, simplify_debts emits at most n - 1 payments.
C5_MinimalityBound ==
  (pc = "returned" /\ NonZero(balances) >= 1)
    => Len(transactions) <= NonZero(balances) - 1

C5_Witness ==
  /\ pc = "returned"
  /\ NonZero(balances) = 3
  /\ Len(transactions) = 2
  /\ SumAmounts(balances) # 0

\* C6: for every map, zero-sum or not, the while loop runs at most
\* |debtors| + |creditors| iterations, and once either cursor has passed the
\* end of its list no further iteration runs: the function returns.
C6_LoopTerminates ==
  /\ iters <= Len(debtors(balances)) + Len(creditors(balances))
  /\ (pc = "while" /\ (d_idx >= Len(sorted_debtors) \/ c_idx >= Len(sorted_creditors)))
       => (~ENABLED LoopSkip /\ ~ENABLED LoopPay /\ ENABLED Return)
  /\ pc = "returned"
       => (d_idx = Len(sorted_debtors) \/ c_idx = Len(sorted_creditors))

C6_Witness ==
  /\ pc = "returned"
  /\ SumAmounts(balances) # 0
  /\ iters >= 2
  /\ d_idx = Len(sorted_debtors)
  /\ c_idx < Len(sorted_creditors)

\* C9: whenever the branch of line 36 is about to advance the debtor cursor
\* without a payment, the debtor it passes over has a remaining balance of
\* absolute value below 0.01.
C9_SkipOnlyNoise ==
  (/\ pc = "while"
   /\ LoopGuard(sorted_debtors, sorted_creditors, d_idx, c_idx)
   /\ BelowThreshold(Payment(sorted_debtors, sorted_creditors, d_idx, c_idx)))
    => Abs(sorted_debtors[d_idx + 1].amount) < Cent

(***************************************************************************)
(* Properties of the accumulation loop and of the result, checked under    *)
(* Spec                                                                    *)
(***************************************************************************)
AllValid == \A i \in DOMAIN log : log[i].valid

RECURSIVE TotalShares(_)
TotalShares(l) == IF l = <<>> THEN 0 ELSE Head(l).shares + TotalShares(Tail(l))

SomeApplied == \E i \in DOMAIN log : log[i].applied

\* C3 as stated: after every prefix of valid entries the sum of all balances
\* is within 1e-6 x (number of entries processed) of zero.
C3_ZeroSumWithinNoise ==
  (pc = "for" /\ AllValid)
    => 1000000 * Abs(SumAmounts(balances)) <= Scale * Len(log)

\* C3 amended: after every prefix of valid entries the sum of all balances is
\* within 0.005 x (number of beneficiary shares debited so far)
\* + 1e-6 x (number of entries processed) of zero.
C3_ZeroSumWithinRounding ==
  (pc = "for" /\ AllValid)
    => 2 * 1000000 * Abs(SumAmounts(balances))
         <= 1000000 * Cent * TotalShares(log) + 2 * Scale * Len(log)

\* two valid entries processed, the sum off zero by the whole rounding bound
C3_Witness ==
  /\ pc = "for"
  /\ AllValid
  /\ Len(log) = 2
  /\ SumAmounts(balances) # 0
  /\ 2 * Abs(SumAmounts(balances)) = Cent * TotalShares(log)

RejectedByContract(it) ==
  IF MissingProperty(it) THEN FALSE
  ELSE \/ (it.amount.tag = "number" /\ it.amount.number <= 0)
       \/ it.payers.options = <<>>
       \/ it.sharers.options = <<>>

\* C4: an entry whose amount is zero or negative, whose payer list is empty or
\* whose beneficiary list is empty leaves the balance map as it was, and the
\* loop goes on to the next entry.
C4_InvalidEntrySkipped ==
  [][(pc = "body" /\ RejectedByContract(item))
       => (balances' = balances /\ pc' = "for")]_vars

Raises(it) ==
  IF MissingProperty(it) THEN FALSE
  ELSE IF IncompleteData(it) THEN FALSE
  ELSE RaisesBeforeMutation(it) \/ RaisesAtProcessedItem(it)

C8_EmptyResultOnlyWithoutData ==
  /\ pc = "check" => (ENABLED EmptyResult <=> ~SomeApplied)
  /\ pc = "check" => (ENABLED CallSimplify <=> SomeApplied)
  /\ pc = "error" => (~SomeApplied /\ calls = 0 /\ transactions = <<>>)
  /\ pc \in {"settled", "listed"} => (SomeApplied /\ calls = 1)
  /\ pc = "settled" => transactions = <<>>
  /\ pc = "listed" => transactions # <<>>

\* data with an applied entry and nothing left to pay
C8_Witness ==
  /\ pc = "settled"
  /\ SomeApplied
  /\ balances # <<>>
  /\ transactions = <<>>

\* C10: an entry for which a failure warning is reported leaves the balance
\* map exactly as it was before that entry, at whichever statement the
\* exception is raised.  Stated for the entries with a positive amount, one
\* payer and a non-empty beneficiary list.
C10_FailureLeavesBalances ==
  [][(pc = "body" /\ ValidEntry(item) /\ warnings' # warnings)
       => balances' = balances]_vars

====
